---- MODULE Spec2Model ----
(***************************************************************************)
(* Model of geti_sdk.rest_clients.prediction_client.PredictionClient: the  *)
(* readiness gate, the prediction mode with its override, the single item  *)
(* fetch and the bulk download of predictions.                             *)
(*                                                                         *)
(* Python values are represented as follows.  A PredictionMode member is   *)
(* one of the strings "AUTO", "LATEST", "ONLINE"; None is "None".  An      *)
(* argument of the mode setter is a record [type, value] that keeps the    *)
(* Python type apart from the value.  A media item is a record             *)
(* [type, name, frame_count, frame_stride].  The REST session is the       *)
(* environment: the outcome of every request is drawn when the request is  *)
(* made, either a response body or a GetiRequestException with a status.   *)
(***************************************************************************)
EXTENDS Naturals, Integers, Sequences, FiniteSets, TLC

\* ------------------------------------------------------------------ bounds
MaxList == 2
MaxFrameCount == 2
MaxVideos == 2
MaxElapsed == 1
MaxPath == 3

MaxModels == 2

\* ------------------------------------------------------------ value domains
PredictionModes == {"AUTO", "LATEST", "ONLINE"}

\* PredictionMode(value): lookup of an enum member by its value.
PredictionModeByValue(s) ==
    CASE s = "auto" -> "AUTO"
      [] s = "latest" -> "LATEST"
      [] s = "online" -> "ONLINE"
      [] OTHER -> "ValueError"

\* str(PredictionMode member), as it appears in the request url.
ModeUrlSegment(m) ==
    CASE m = "AUTO" -> "auto"
      [] m = "LATEST" -> "latest"
      [] m = "ONLINE" -> "online"
      [] OTHER -> m

SetterArguments ==
    [type : {"PredictionMode"}, value : PredictionModes]
    \cup [type : {"str"}, value : {"auto", "latest", "online", "AUTO", "offline"}]
    \cup [type : {"int"}, value : {"7"}]

Versions == {"sc_mvp", "sc_1_1", "current"}

IsLegacy(v) == v \in {"sc_mvp", "sc_1_1"}

\* The trainable tasks of the project the client was built for.
Tasks == {"t1", "t2"}

\* The projects a client may be built for: any of the tasks may be trainable.
Projects == [trainable_tasks : SUBSET Tasks]

ErrorStatuses == {204, 500}

ImageNames == {"a", "b"}

VideoNames == {"v"}

\* video.media_information.frame_stride of the videos of the project.
SuggestedStride == 2

Images == [type : {"image"}, name : ImageNames, frame_count : {0}, frame_stride : {0}]

Videos ==
    [type : {"video"}, name : VideoNames,
     frame_count : 0..MaxFrameCount, frame_stride : {SuggestedStride}]

\* VideoFrame.from_video(video, frame_index)
VideoFrame_from_video(video, frame_index) ==
    [type |-> "video_frame",
     name |-> video.name \o "_frame_" \o ToString(frame_index),
     frame_count |-> 0, frame_stride |-> 0]

\* The frames of the videos of the project.
VideoFrames ==
    UNION {{VideoFrame_from_video(v, i) : i \in 0..(v.frame_count - 1)} : v \in Videos}

OtherItems == [type : {"other"}, name : {"x"}, frame_count : {0}, frame_stride : {0}]

\* Sequences over S of length at most n.
SeqUpTo(S, n) == UNION {[1..k -> S] : k \in 0..n}

\* A folder path is a string, held as the sequence of the pieces it is
\* written with; the separator is the piece "/".
PathPieces == {"/", "out", "my_", "predictions"}

Paths == SeqUpTo(PathPieces, MaxPath)

\* Strictly increasing sequences of frame indices below n.
RECURSIVE Ascending(_)
Ascending(S) ==
    IF S = {} THEN <<>>
    ELSE LET m == CHOOSE x \in S : \A y \in S : x <= y
         IN <<m>> \o Ascending(S \ {m})

\* range(0, frame_count, stride) for stride > 0
Range(frame_count, stride) ==
    LET n == (frame_count + stride - 1) \div stride
    IN [i \in 1..n |-> (i - 1) * stride]

\* ------------------------------------------------------------------- state
VARIABLES
    version,              \* session.version
    project,              \* self.project
    __project_ready,      \* the cached readiness flag
    _mode,                \* the base mode
    __override_mode,      \* the override, "None" when there is none
    pc,                   \* "idle", "loop" (the 2D list loop), "videos", "done"
    op,                   \* the public operation in progress, or the last one
    args,                 \* the arguments of that operation
    result,               \* how the last operation ended: [status, exc, value]
    requests,             \* the requests the last step sent, in order
    media_list,           \* the 2D list being downloaded
    idx,                  \* position of the next item of media_list
    include_result_media,
    download_count,
    skip_count,
    prediction,           \* the loop's `prediction` of the last item
    fetched,              \* per processed item: "None" or the prediction's kind
    written_json,         \* names of the JSON files written by the download
    json_content,         \* per file name, the documents the file holds
    written_media,        \* names of the result media files written
    saliency_dir,         \* whether the saliency_maps folder was created
    videos,               \* the videos still to download
    inferred_frames_only,
    frame_stride,         \* the frame_stride argument: [given, value]
    t_total,
    predictions,          \* frame indices of the stored predictions of the video
    path_to_folder,       \* the folder argument of a download
    path_to_predictions_folder,
    server,               \* what the server holds, when it is held unchanged
    once,                 \* the files left by the first of two equal downloads
    other                 \* a second caller of the same client and its call

\* self.project.get_trainable_tasks()
trainable_tasks == project.trainable_tasks

\* ------------------------------------------------------- the REST session
\* Outcome of GET <base_url>model_groups: the decoded response, or a
\* GetiRequestException carrying the status.
ModelInfoArrays ==
    {<<>>,
     <<[task_id |-> "t1", models |-> 1]>>,
     <<[task_id |-> "t1", models |-> 1], [task_id |-> "t2", models |-> 0]>>,
     <<[task_id |-> "t2", models |-> 1], [task_id |-> "t1", models |-> 2]>>,
     <<[task_id |-> "t1", models |-> 0], [task_id |-> "t1", models |-> 1]>>}

ModelGroupsOutcomes(v) ==
    [status : ErrorStatuses, shape : {"error"}, key : {"none"}, array : {<<>>}]
    \cup [status : {200}, shape : {"dict"},
          key : IF IsLegacy(v) THEN {"items"} ELSE {"model_groups"},
          array : ModelInfoArrays]
    \cup [status : {200}, shape : {"dict"}, key : {"none"}, array : {<<>>}]
    \cup (IF IsLegacy(v)
          THEN [status : {200}, shape : {"list"}, key : {"none"}, array : ModelInfoArrays]
          ELSE {})

\* Outcome of GET <media_item.base_url>/predictions/<mode>.  A 2D media item
\* gets one prediction envelope (or a body that is no envelope), a video a
\* list of envelopes, either as the response itself or under the key
\* video_predictions.
PredictionOutcomes(media_item) ==
    [status : ErrorStatuses, shape : {"error"}, kind : {"none"},
     has_result_media : {FALSE}, frames : {<<>>}]
    \cup (IF media_item.type = "video"
          THEN [status : {200}, shape : {"list", "dict"}, kind : {"PREDICTION"},
                has_result_media : {FALSE},
                frames : {Ascending(S) : S \in SUBSET (0..(media_item.frame_count - 1))}]
          ELSE [status : {200}, shape : {"envelope"}, kind : {"PREDICTION", "ANNOTATION"},
                has_result_media : BOOLEAN, frames : {<<>>}]
               \cup [status : {200}, shape : {"malformed"}, kind : {"none"},
                     has_result_media : {FALSE}, frames : {<<>>}])

\* Outcome of prediction.get_result_media_data(session): the media, None, or
\* a GetiRequestException carrying the status.
ResultMediaOutcomes ==
    [status : {200}, data : {"payload", "None"}]
    \cup [status : ErrorStatuses, data : {"None"}]

\* The requests sent, each with its answer.
\* The GET of the model groups and what it was answered with.
ModelGroupsRequest(response) ==
    [kind |-> "model_groups", name |-> "", mode |-> "", status |-> response.status,
     shape |-> response.shape, key |-> response.key, array |-> response.array]

\* The GET of a prediction and what it was answered with.
PredictionRequest(media_item, prediction_mode, outcome) ==
    [kind |-> "prediction", name |-> media_item.name,
     mode |-> ModeUrlSegment(prediction_mode), status |-> outcome.status,
     shape |-> outcome.shape, frames |-> outcome.frames]

\* The request of get_result_media_data and what it was answered with.
ResultMediaRequest(media_item, outcome) ==
    [kind |-> "result_media", name |-> media_item.name, mode |-> "",
     status |-> outcome.status, data |-> outcome.data]

\* ------------------------------------------------------- readiness gate
\* The array of model groups the version's branch reads from the response.
model_info_array(response, v) ==
    IF IsLegacy(v)
    THEN IF response.shape = "dict"
         THEN (IF response.key = "items" THEN response.array ELSE <<>>)
         ELSE response.array
    ELSE IF response.key = "model_groups" THEN response.array ELSE <<>>

\* Mutant of __are_models_trained: a model group counts for its task whether
\* or not it holds a model.
__are_models_trained_by_groups(response, v) ==
    IF response.status # 200
    THEN [exc |-> "GetiRequestException", value |-> FALSE]
    ELSE IF IsLegacy(v) /\ response.shape \notin {"dict", "list"}
    THEN [exc |-> "ValueError", value |-> FALSE]
    ELSE LET arr == model_info_array(response, v)
             tasks_with_models == {arr[i].task_id : i \in 1..Len(arr)}
         IN [exc |-> "none",
             value |-> \A task_id \in trainable_tasks : task_id \in tasks_with_models]

\* PredictionClient.__are_models_trained: [exc, value]
__are_models_trained(response, v) ==
    IF response.status # 200
    THEN [exc |-> "GetiRequestException", value |-> FALSE]
    ELSE IF IsLegacy(v) /\ response.shape \notin {"dict", "list"}
    THEN [exc |-> "ValueError", value |-> FALSE]
    ELSE LET arr == model_info_array(response, v)
             tasks_with_models ==
                 {arr[i].task_id : i \in {j \in 1..Len(arr) : arr[j].models > 0}}
         IN [exc |-> "none",
             value |-> \A task_id \in trainable_tasks : task_id \in tasks_with_models]

\* Mutant of ready_to_predict: a symmetric cache, re-checked on every read.
ready_to_predict_always_checks(project_ready, response, v) ==
    LET r == __are_models_trained(response, v)
    IN IF r.exc # "none"
       THEN [exc |-> r.exc, value |-> FALSE, project_ready |-> project_ready,
             requests |-> <<ModelGroupsRequest(response)>>]
       ELSE [exc |-> "none", value |-> r.value, project_ready |-> r.value,
             requests |-> <<ModelGroupsRequest(response)>>]

\* PredictionClient.ready_to_predict, read with the cached flag project_ready:
\* [exc, value, project_ready, requests]
ready_to_predict(project_ready, response, v) ==
    IF project_ready
    THEN [exc |-> "none", value |-> TRUE, project_ready |-> TRUE, requests |-> <<>>]
    ELSE LET r == __are_models_trained(response, v)
         IN IF r.exc # "none"
            THEN [exc |-> r.exc, value |-> FALSE, project_ready |-> project_ready,
                  requests |-> <<ModelGroupsRequest(response)>>]
            ELSE [exc |-> "none", value |-> r.value, project_ready |-> r.value,
                  requests |-> <<ModelGroupsRequest(response)>>]

\* ----------------------------------------------------- single item fetch
NoResult == [type |-> "None", kind |-> "none", has_result_media |-> FALSE,
             labels_resolved |-> FALSE, frames |-> <<>>]

\* Mutant of ResolvedPrediction: the converted envelope is returned without
\* the call of resolve_labels_for_result_media.
UnresolvedPrediction(kind, has_result_media) ==
    [type |-> "Prediction", kind |-> kind, has_result_media |-> has_result_media,
     labels_resolved |-> FALSE, frames |-> <<>>]

\* PredictionRESTConverter.from_dict / normalized_prediction_from_dict on one
\* envelope, then resolve_labels_for_result_media.
ResolvedPrediction(kind, has_result_media) ==
    [type |-> "Prediction", kind |-> kind, has_result_media |-> has_result_media,
     labels_resolved |-> TRUE, frames |-> <<>>]

\* The list of per-frame predictions of a video, by frame index.
ResolvedPredictionList(frames) ==
    [type |-> "list", kind |-> "none", has_result_media |-> FALSE,
     labels_resolved |-> TRUE, frames |-> frames]

NotReadyMsg == <<"Not all tasks in project have a trained model available">>

\* Mutant of ErrorMsg: the advice to change the mode is given whatever the
\* requested mode.
ErrorMsg_advice_always(status, prediction_mode) ==
    <<"Unable to retrieve prediction">>
    \o (IF status = 204
        THEN <<"prediction is not available", "Try setting the mode to 'auto' or 'online'">>
        ELSE <<"Server responded with error message">>)

\* The message built in the except branch for a GetiRequestException.
ErrorMsg(status, prediction_mode) ==
    <<"Unable to retrieve prediction">>
    \o (IF status = 204
        THEN <<"prediction is not available">>
             \o (IF prediction_mode = "LATEST"
                 THEN <<"Try setting the mode to 'auto' or 'online'">>
                 ELSE <<>>)
        ELSE <<"Server responded with error message">>)

\* Mutant of ConvertResponse: the envelopes of a video are taken from the key
\* video_predictions on the legacy versions and from the response itself on
\* the current one.
ConvertResponse_key_on_legacy(media_item, response, v) ==
    IF media_item.type \in {"image", "video_frame"}
    THEN IF response.shape = "envelope"
         THEN [exc |-> "none",
               result |-> ResolvedPrediction(response.kind, response.has_result_media)]
         ELSE [exc |-> "KeyError", result |-> NoResult]
    ELSE IF media_item.type = "video"
    THEN IF (IsLegacy(v) /\ response.shape = "dict") \/ (~IsLegacy(v) /\ response.shape = "list")
         THEN [exc |-> "none", result |-> ResolvedPredictionList(response.frames)]
         ELSE [exc |-> "TypeError", result |-> NoResult]
    ELSE [exc |-> "TypeError", result |-> NoResult]

\* The try block of _get_prediction_for_media_item once the GET has
\* answered with a body: [exc, result]
ConvertResponse(media_item, response, v) ==
    IF media_item.type \in {"image", "video_frame"}
    THEN IF response.shape = "envelope"
         THEN [exc |-> "none",
               result |-> ResolvedPrediction(response.kind, response.has_result_media)]
         ELSE [exc |-> "KeyError", result |-> NoResult]
    ELSE IF media_item.type = "video"
    THEN IF IsLegacy(v)
         THEN (IF response.shape = "list"
               THEN [exc |-> "none", result |-> ResolvedPredictionList(response.frames)]
               ELSE [exc |-> "TypeError", result |-> NoResult])
         ELSE (IF response.shape = "dict"
               THEN [exc |-> "none", result |-> ResolvedPredictionList(response.frames)]
               ELSE [exc |-> "TypeError", result |-> NoResult])
    ELSE [exc |-> "TypeError", result |-> NoResult]

\* _get_prediction_for_media_item once ready_to_predict has answered rdy:
\* [exc, result, msg, project_ready, requests]
FetchAfterGate(rdy, media_item, prediction_mode, v, outcome) ==
    LET request == PredictionRequest(media_item, prediction_mode, outcome)
    IN IF rdy.exc # "none"
       THEN [exc |-> rdy.exc, result |-> NoResult, msg |-> <<>>,
             project_ready |-> rdy.project_ready, requests |-> rdy.requests]
       ELSE IF ~rdy.value
       THEN [exc |-> "none", result |-> NoResult, msg |-> NotReadyMsg,
             project_ready |-> rdy.project_ready, requests |-> rdy.requests]
       ELSE IF outcome.status # 200
       THEN [exc |-> "none", result |-> NoResult,
             msg |-> ErrorMsg(outcome.status, prediction_mode),
             project_ready |-> rdy.project_ready,
             requests |-> rdy.requests \o <<request>>]
       ELSE LET c == ConvertResponse(media_item, outcome, v)
            IN [exc |-> c.exc, result |-> c.result,
                msg |-> IF c.exc = "none" THEN <<"success">> ELSE <<>>,
                project_ready |-> rdy.project_ready,
                requests |-> rdy.requests \o <<request>>]

\* Mutant of _get_prediction_for_media_item: the request is sent whatever
\* ready_to_predict answers.
fetch_ignoring_gate(media_item, prediction_mode, project_ready, v, groups_outcome, outcome) ==
    LET rdy == ready_to_predict(project_ready, groups_outcome, v)
    IN FetchAfterGate([rdy EXCEPT !.value = TRUE],
                      media_item, prediction_mode, v, outcome)

\* PredictionClient._get_prediction_for_media_item
_get_prediction_for_media_item(media_item, prediction_mode, project_ready, v, groups_outcome, outcome) ==
    FetchAfterGate(ready_to_predict(project_ready, groups_outcome, v),
                   media_item, prediction_mode, v, outcome)

\* ------------------------------------------------------------ files on disk
\* The names a download may give to a JSON file: the names of the media items.
FileNames == ImageNames \cup {f.name : f \in VideoFrames}

\* A folder without a JSON file: every name with no document.
NoFiles == [name \in FileNames |-> <<>>]

\* PredictionRESTConverter.to_dict(p) of a prediction p: the exported document.
to_dict(p) ==
    [kind |-> p.kind, has_result_media |-> p.has_result_media,
     labels_resolved |-> p.labels_resolved]

\* Mutant of write: the file is opened for appending.
write_appending(files, name, document) ==
    [files EXCEPT ![name] = @ \o <<document>>]

\* open(prediction_path, "w") and json.dump: the file holds the one document.
write(files, name, document) ==
    [files EXCEPT ![name] = <<document>>]

\* ------------------------------------------------------------------ state
client == <<version, project, __project_ready, _mode, __override_mode>>
control == <<pc, op, args, result, requests>>
loop == <<media_list, idx, include_result_media, download_count, skip_count,
          prediction, fetched, written_json, json_content, written_media, saliency_dir>>
outer == <<videos, inferred_frames_only, frame_stride, t_total, predictions>>
paths == <<path_to_folder, path_to_predictions_folder>>
held == <<server, once, other>>
vars == <<client, control, loop, outer, paths, held>>

NoStride == [given |-> FALSE, value |-> 0]

FrameStrideArguments == {NoStride} \cup [given : {TRUE}, value : (-1)..1]

NoArgs == [none |-> TRUE]

Returned(value) == [status |-> "returned", exc |-> "none", value |-> value]

Raised(exc) == [status |-> "raised", exc |-> exc, value |-> "None"]

\* raise exc(msg)
RaisedWith(exc, msg) == [status |-> "raised", exc |-> exc, value |-> msg]

\* Mutant of mode: the override is not looked at.
mode_base_only ==
    _mode

\* PredictionClient.mode (the getter)
mode ==
    IF __override_mode = "None" THEN _mode ELSE __override_mode

\* The variables of the downloads, no download made yet.
AtRest ==
    /\ media_list = <<>>
    /\ idx = 1
    /\ include_result_media = FALSE
    /\ download_count = 0
    /\ skip_count = 0
    /\ prediction = NoResult
    /\ fetched = <<>>
    /\ written_json = {}
    /\ json_content = NoFiles
    /\ written_media = {}
    /\ saliency_dir = FALSE
    /\ videos = <<>>
    /\ inferred_frames_only = TRUE
    /\ frame_stride = NoStride
    /\ t_total = 0
    /\ predictions = <<>>

\* PredictionClient.__init__ for a project of `projects`, for the
\* constructions that succeed.
InitClientOf(projects) ==
    /\ project \in projects
    /\ version \in Versions
    /\ \E g \in ModelGroupsOutcomes(version) :
          /\ __are_models_trained(g, version).exc = "none"
          /\ __project_ready = __are_models_trained(g, version).value
    /\ _mode = "AUTO"
    /\ __override_mode = "None"
    /\ pc = "idle"
    /\ op = "none"
    /\ args = NoArgs
    /\ result = Returned("None")
    /\ requests = <<>>
    /\ AtRest

\* The client of a project whose tasks are all trainable.
InitClient == InitClientOf({[trainable_tasks |-> Tasks]})

\* The server when nothing is known of the answers it gives: every request
\* draws its answer anew.
AnyServer == [unchanged |-> FALSE, groups |-> <<>>, predictions |-> <<>>]

NotRepeated == [runs |-> 0, written_json |-> {}, json_content |-> NoFiles]

\* The second caller before its call: [pc, op, media_list, idx,
\* download_count, modes, result]; modes are the modes its last step put in
\* the URL of its prediction requests.
NoOther ==
    [pc |-> "idle", op |-> "none", media_list |-> <<>>, idx |-> 1,
     download_count |-> 0, modes |-> <<>>, result |-> "none"]

\* The modes of the prediction requests among the requests of a step.
RECURSIVE requested_modes(_)
requested_modes(sent) ==
    IF sent = <<>> THEN <<>>
    ELSE (IF Head(sent).kind = "prediction" THEN <<Head(sent).mode>> ELSE <<>>)
         \o requested_modes(Tail(sent))

\* The client before its first call.
Init ==
    /\ InitClient
    /\ server = AnyServer
    /\ once = NotRepeated
    /\ other = NoOther
    /\ path_to_folder = <<>>
    /\ path_to_predictions_folder = <<>>

\* The outcomes of the model_groups request a step may meet: the request is
\* sent only while the cached flag is False.
GroupsDraw ==
    IF __project_ready
    THEN {[status |-> 200, shape |-> "dict", key |-> "none", array |-> <<>>]}
    ELSE IF server.unchanged THEN {server.groups}
    ELSE ModelGroupsOutcomes(version)

\* The outcomes of the prediction request for a media item a step may meet.
Answers(media_item) ==
    IF server.unchanged THEN {server.predictions[media_item.name]}
    ELSE PredictionOutcomes(media_item)

Running == [status |-> "running", exc |-> "none", value |-> "None"]

\* The variables of the bulk download, for an operation that downloads nothing.
NoDownload ==
    /\ media_list' = <<>>
    /\ idx' = 1
    /\ include_result_media' = FALSE
    /\ download_count' = 0
    /\ skip_count' = 0
    /\ prediction' = NoResult
    /\ fetched' = <<>>
    /\ written_json' = {}
    /\ json_content' = NoFiles
    /\ written_media' = {}
    /\ saliency_dir' = FALSE
    /\ videos' = <<>>
    /\ inferred_frames_only' = TRUE
    /\ frame_stride' = NoStride
    /\ t_total' = 0
    /\ predictions' = <<>>

\* The caller takes the outcome of the operation that ended and is ready to
\* make the next call.
next_call ==
    /\ pc = "done"
    /\ UNCHANGED <<paths, held>>
    /\ pc' = "idle"
    /\ op' = "none"
    /\ args' = NoArgs
    /\ result' = Returned("None")
    /\ requests' = <<>>
    /\ NoDownload
    /\ UNCHANGED client

\* ------------------------------------------------------ mode and readiness
\* Mutant of mode_setter: a string is stored without the conversion to a
\* PredictionMode.
mode_setter_unconverted(new_mode) ==
    /\ pc = "idle"
    /\ UNCHANGED <<paths, held>>
    /\ pc' = "done"
    /\ op' = "mode.setter"
    /\ args' = [new_mode |-> new_mode]
    /\ result' = Returned("None")
    /\ _mode' = new_mode.value
    /\ requests' = <<>>
    /\ UNCHANGED <<version, project, __project_ready, __override_mode, loop, outer>>

\* Mutant of mode_setter: setting the mode also removes the override.
mode_setter_clearing_override(new_mode) ==
    /\ pc = "idle"
    /\ UNCHANGED <<paths, held>>
    /\ pc' = "done"
    /\ op' = "mode.setter"
    /\ args' = [new_mode |-> new_mode]
    /\ LET converted == IF new_mode.type = "str"
                        THEN PredictionModeByValue(new_mode.value)
                        ELSE new_mode.value
       IN IF converted = "ValueError"
          THEN /\ result' = Raised("ValueError")
               /\ _mode' = _mode
          ELSE /\ result' = Returned("None")
               /\ _mode' = converted
    /\ __override_mode' = "None"
    /\ requests' = <<>>
    /\ UNCHANGED <<version, project, __project_ready, loop, outer>>

\* PredictionClient.mode (the setter)
mode_setter(new_mode) ==
    /\ pc = "idle"
    /\ UNCHANGED <<paths, held>>
    /\ pc' = "done"
    /\ op' = "mode.setter"
    /\ args' = [new_mode |-> new_mode]
    /\ LET converted == IF new_mode.type = "str"
                        THEN PredictionModeByValue(new_mode.value)
                        ELSE new_mode.value
       IN IF converted = "ValueError"
          THEN /\ result' = Raised("ValueError")
               /\ _mode' = _mode
          ELSE /\ result' = Returned("None")
               /\ _mode' = converted
    /\ requests' = <<>>
    /\ UNCHANGED <<version, project, __project_ready, __override_mode, loop, outer>>

\* A read of the mode property by the caller.
mode_getter ==
    /\ pc = "idle"
    /\ UNCHANGED <<paths, held>>
    /\ pc' = "done"
    /\ op' = "mode"
    /\ args' = NoArgs
    /\ result' = Returned(mode)
    /\ requests' = <<>>
    /\ UNCHANGED <<client, loop, outer>>

\* A read of the ready_to_predict property by the caller.
read_ready_to_predict ==
    /\ pc = "idle"
    /\ UNCHANGED <<paths, held>>
    /\ pc' = "done"
    /\ op' = "ready_to_predict"
    /\ args' = NoArgs
    /\ \E g \in GroupsDraw :
          LET r == ready_to_predict(__project_ready, g, version)
          IN /\ __project_ready' = r.project_ready
             /\ requests' = r.requests
             /\ result' = IF r.exc = "none" THEN Returned(r.value) ELSE Raised(r.exc)
    /\ UNCHANGED <<version, project, _mode, __override_mode, loop, outer>>

\* A call of _get_prediction_for_media_item.
fetch_media_item(media_item, prediction_mode) ==
    /\ pc = "idle"
    /\ UNCHANGED <<paths, held>>
    /\ pc' = "done"
    /\ op' = "_get_prediction_for_media_item"
    /\ args' = [media_item |-> media_item, prediction_mode |-> prediction_mode]
    /\ \E g \in GroupsDraw, o \in Answers(media_item) :
          LET r == _get_prediction_for_media_item(media_item, prediction_mode,
                                                  __project_ready, version, g, o)
          IN /\ __project_ready' = r.project_ready
             /\ requests' = r.requests
             /\ result' = IF r.exc = "none"
                          THEN Returned([result |-> r.result, msg |-> r.msg])
                          ELSE Raised(r.exc)
    /\ UNCHANGED <<version, project, _mode, __override_mode, loop, outer>>

\* Mutant of raise_if_none: the result of the fetch is returned as it is.
return_even_if_none(r) ==
    IF r.exc # "none" THEN Raised(r.exc) ELSE Returned(r.result)

\* The end of the three convenience calls: `if result is None: raise
\* ValueError(msg)`, else `return result`.
raise_if_none(r) ==
    IF r.exc # "none" THEN Raised(r.exc)
    ELSE IF r.result.type = "None" THEN RaisedWith("ValueError", r.msg)
    ELSE Returned(r.result)

\* get_image_prediction, get_video_frame_prediction and
\* get_video_predictions called by the user: the fetch in the mode of the
\* client, then the check of its result.
get_prediction(name, media_item) ==
    /\ pc = "idle"
    /\ UNCHANGED <<paths, held>>
    /\ pc' = "done"
    /\ op' = name
    /\ args' = [media_item |-> media_item]
    /\ \E g \in GroupsDraw, o \in Answers(media_item) :
          LET r == _get_prediction_for_media_item(media_item, mode, __project_ready,
                                                  version, g, o)
          IN /\ __project_ready' = r.project_ready
             /\ requests' = r.requests
             /\ result' = raise_if_none(r)
    /\ UNCHANGED <<version, project, _mode, __override_mode, loop, outer>>

\* ------------------------------------------------------- direct inference
\* The `image` argument of predict_image: its Python type and what it holds
\* (pixel data for an Image or an array, a file for a path).
PredictImageArguments ==
    [type : {"Image"}, holds : {"pixels", "None"}]
    \cup [type : {"ndarray"}, holds : {"pixels"}]
    \cup [type : {"str", "PathLike"}, holds : {"file", "no file"}]
    \cup [type : {"int"}, holds : {"None"}]

\* Outcome of POST <base_url>predict: a prediction envelope, or a
\* GetiRequestException carrying the status.
PredictOutcomes ==
    [status : {200}, kind : {"PREDICTION"}, has_result_media : BOOLEAN]
    \cup [status : ErrorStatuses, kind : {"none"}, has_result_media : {FALSE}]

PredictRequest(status) ==
    [kind |-> "predict", name |-> "", mode |-> "", status |-> status,
     method |-> "POST", contenttype |-> "jpeg"]

\* PredictionRESTConverter.from_dict(response), with no label resolution
\* after it.
from_dict(response) ==
    [type |-> "Prediction", kind |-> response.kind,
     has_result_media |-> response.has_result_media,
     labels_resolved |-> FALSE, frames |-> <<>>]

\* Mutant of image_io: the input is passed on without any check.
image_io_unchecked(image) ==
    [exc |-> "none", msg |-> <<>>]

\* The input handling of predict_image up to the request: [exc, msg]
image_io(image) ==
    IF image.type = "Image"
    THEN (IF image.holds = "None"
          THEN [exc |-> "ValueError", msg |-> <<"the image does not contain any pixel data">>]
          ELSE [exc |-> "none", msg |-> <<>>])
    ELSE IF image.type = "ndarray"
    THEN [exc |-> "none", msg |-> <<>>]
    ELSE IF image.type \in {"PathLike", "str"}
    THEN (IF image.holds = "no file"
          THEN [exc |-> "FileNotFoundError", msg |-> <<>>]
          ELSE [exc |-> "none", msg |-> <<>>])
    ELSE [exc |-> "TypeError",
          msg |-> <<"Received object 'image' of type", image.type, "which is invalid">>]

\* Mutant of predict_image: the readiness gate is read before the request.
predict_image_behind_gate(image) ==
    /\ pc = "idle"
    /\ UNCHANGED <<paths, held>>
    /\ pc' = "done"
    /\ op' = "predict_image"
    /\ args' = [image |-> image]
    /\ \E g \in GroupsDraw, o \in PredictOutcomes :
          LET rdy == ready_to_predict(__project_ready, g, version)
          IN /\ __project_ready' = rdy.project_ready
             /\ requests' = rdy.requests \o <<PredictRequest(o.status)>>
             /\ result' = IF o.status # 200 THEN Raised("GetiRequestException")
                          ELSE Returned(from_dict(o))
    /\ UNCHANGED <<version, project, _mode, __override_mode, loop, outer>>

\* PredictionClient.predict_image
predict_image(image) ==
    /\ pc = "idle"
    /\ UNCHANGED <<paths, held>>
    /\ pc' = "done"
    /\ op' = "predict_image"
    /\ args' = [image |-> image]
    /\ LET io == image_io(image)
       IN IF io.exc # "none"
          THEN /\ result' = RaisedWith(io.exc, io.msg)
               /\ requests' = <<>>
          ELSE \E o \in PredictOutcomes :
                  /\ requests' = <<PredictRequest(o.status)>>
                  /\ result' = IF o.status # 200 THEN Raised("GetiRequestException")
                               ELSE Returned(from_dict(o))
    /\ UNCHANGED <<client, loop, outer>>

\* ------------------------------------------------------------ bulk download
MediaLists ==
    [media_type : {"image"}, items : SeqUpTo(Images, MaxList)]
    \cup [media_type : {"video"},
          items : {<<v>> : v \in {w \in Videos : w.frame_count = 0}}]

\* str.endswith(suffix), for a suffix that is one piece.
endswith(path, suffix) ==
    path # <<>> /\ path[Len(path)] = suffix

\* os.path.join(path, name)
os_path_join(path, name) ==
    IF path = <<>> THEN <<name>>
    ELSE IF path[Len(path)] = "/" THEN Append(path, name)
    ELSE path \o <<"/", name>>

\* The folder _download_predictions_for_2d_media_list writes to.
predictions_folder(folder) ==
    IF ~endswith(folder, "predictions")
    THEN os_path_join(folder, "predictions")
    ELSE folder

\* The choice of the folder and os.makedirs(path_to_predictions_folder,
\* exist_ok=True): the folder exists from here on.
os_makedirs == path_to_predictions_folder' = predictions_folder(path_to_folder)

\* Entry of _download_predictions_for_2d_media_list up to the loop, for a
\* list of images or video frames: the counters of the call.
Enter2DList(list) ==
    /\ media_list' = list
    /\ idx' = 1
    /\ download_count' = 0
    /\ skip_count' = 0
    /\ prediction' = NoResult
    /\ fetched' = <<>>

\* Mutant of is_2d_media_type: the media type of the list is not checked.
any_media_type(media_type) == TRUE

\* The check of media_list.media_type at the entry of
\* _download_predictions_for_2d_media_list: Image or VideoFrame.
is_2d_media_type(media_type) == media_type \in {"image", "video_frame"}

\* download_predictions_for_images
download_predictions_for_images(images, include) ==
    /\ pc = "idle"
    /\ UNCHANGED <<path_to_folder, held>>
    /\ op' = "download_predictions_for_images"
    /\ args' = [images |-> images]
    /\ include_result_media' = include
    /\ requests' = <<>>
    /\ IF is_2d_media_type(images.media_type)
       THEN /\ os_makedirs
            /\ Enter2DList(images.items)
            /\ pc' = "loop"
            /\ result' = Running
       ELSE /\ UNCHANGED path_to_predictions_folder
            /\ Enter2DList(<<>>)
            /\ pc' = "done"
            /\ result' = Raised("ValueError")
    /\ UNCHANGED <<client, written_json, json_content, written_media, saliency_dir, outer>>

\* What the loop records of a fetch: "None", or the kind of the prediction.
FetchedKind(fetch_result) ==
    IF fetch_result.type = "None" THEN "None" ELSE fetch_result.kind

\* Mutant of IsExported: the kind of the prediction is not checked.
IsExportedAnyKind(fetch_result) ==
    fetch_result.type # "None"

\* Mutant of fetches_result_media: the result media are fetched for every
\* prediction that carries some.
fetches_result_media_always(p, include) == p.has_result_media

\* `if prediction.has_result_media and include_result_media`
fetches_result_media(p, include) == p.has_result_media /\ include

\* The two checks of the loop that let an item through to the export.
IsExported(fetch_result) ==
    /\ fetch_result.type # "None"
    /\ fetch_result.kind = "PREDICTION"

\* Mutant of Continue: the item that gave nothing is tried again.
Retry(i, n) == i

\* `continue`: the position of the loop after item i of n.
Continue(i, n) == i + 1

\* Mutant of get_result_media_data: no except clause, the request error
\* leaves the loop.
get_result_media_data_uncaught(m) ==
    IF m.status # 200
    THEN [exc |-> "GetiRequestException", result_media |-> "None"]
    ELSE [exc |-> "none", result_media |-> m.data]

\* The try/except around get_result_media_data: [exc, result_media]
get_result_media_data(m) ==
    IF m.status # 200
    THEN [exc |-> "none", result_media |-> "None"]
    ELSE [exc |-> "none", result_media |-> m.data]

\* One pass of the for loop of _download_predictions_for_2d_media_list.
download_step ==
    /\ pc = "loop"
    /\ UNCHANGED <<paths, held>>
    /\ idx <= Len(media_list)
    /\ \E g \in GroupsDraw, o \in Answers(media_list[idx]) :
          LET media_item == media_list[idx]
              r == _get_prediction_for_media_item(media_item, mode, __project_ready,
                                                  version, g, o)
          IN /\ __project_ready' = r.project_ready
             /\ IF r.exc # "none"
                THEN /\ pc' = "done"
                     /\ result' = Raised(r.exc)
                     /\ requests' = r.requests
                     /\ UNCHANGED <<idx, download_count, skip_count, prediction,
                                    fetched, written_json, json_content, written_media, saliency_dir>>
                ELSE IF ~IsExported(r.result)
                THEN /\ skip_count' = skip_count + 1
                     /\ fetched' = Append(fetched, FetchedKind(r.result))
                     /\ prediction' = r.result
                     /\ idx' = Continue(idx, Len(media_list))
                     /\ requests' = r.requests
                     /\ UNCHANGED <<pc, result, download_count, written_json, json_content,
                                    written_media, saliency_dir>>
                ELSE \E m \in IF fetches_result_media(r.result, include_result_media)
                              THEN ResultMediaOutcomes
                              ELSE {[status |-> 0, data |-> "None"]} :
                     LET media == get_result_media_data(m)
                         sent == IF m.status = 0 THEN <<>>
                                 ELSE <<ResultMediaRequest(media_item, m)>>
                     IN IF media.exc # "none"
                        THEN /\ pc' = "done"
                             /\ result' = Raised(media.exc)
                             /\ requests' = r.requests \o sent
                             /\ UNCHANGED <<idx, download_count, skip_count,
                                            prediction, fetched, written_json, json_content,
                                            written_media, saliency_dir>>
                        ELSE /\ requests' = r.requests \o sent
                             /\ written_media' =
                                    IF media.result_media # "None"
                                    THEN written_media \cup {media_item.name}
                                    ELSE written_media
                             /\ saliency_dir' =
                                    (saliency_dir \/ media.result_media # "None")
                             /\ written_json' = written_json \cup {media_item.name}
                             /\ json_content' = write(json_content, media_item.name,
                                                      to_dict(r.result))
                             /\ download_count' = download_count + 1
                             /\ fetched' = Append(fetched, FetchedKind(r.result))
                             /\ prediction' = r.result
                             /\ idx' = idx + 1
                             /\ UNCHANGED <<pc, result, skip_count>>
    /\ UNCHANGED <<version, project, _mode, __override_mode, op, args, media_list,
                   include_result_media, outer>>

\* Mutant of _reset_override_mode: the override is left as it is.
_reset_override_mode_kept == __override_mode

\* PredictionClient._reset_override_mode
_reset_override_mode == "None"

\* The end of the loop: _download_predictions_for_2d_media_list returns the
\* elapsed time to the operation that called it, which returns in turn.
download_return ==
    /\ pc = "loop"
    /\ UNCHANGED <<paths, held>>
    /\ idx > Len(media_list)
    /\ requests' = <<>>
    /\ \E t_elapsed \in 0..MaxElapsed :
          IF op = "download_predictions_for_images"
          THEN /\ pc' = "done"
               /\ result' = Returned(t_elapsed)
               /\ UNCHANGED <<__override_mode, t_total, media_list, idx,
                              download_count, skip_count, prediction, fetched>>
          ELSE IF op = "download_predictions_for_video"
          THEN /\ __override_mode' = _reset_override_mode
               /\ pc' = "done"
               /\ result' = Returned(t_elapsed)
               /\ UNCHANGED <<t_total, media_list, idx, download_count,
                              skip_count, prediction, fetched>>
          ELSE /\ __override_mode' = _reset_override_mode
               /\ pc' = "videos"
               /\ t_total' = t_total + t_elapsed
               /\ Enter2DList(<<>>)
               /\ UNCHANGED result
    /\ UNCHANGED <<version, project, __project_ready, _mode, op, args,
                   include_result_media, written_json, json_content, written_media,
                   saliency_dir, videos, inferred_frames_only, frame_stride,
                   predictions>>

\* Mutant of _override_mode: the override is not stored.
_override_mode_ignored(new_override) == "None"

\* The caller makes the download of images that just ended once more, with
\* the same list into the same folder, the files of the first one in place.
download_again ==
    /\ pc = "done"
    /\ op = "download_predictions_for_images"
    /\ once.runs = 0
    /\ once' = [runs |-> 1, written_json |-> written_json,
                json_content |-> json_content]
    /\ requests' = <<>>
    /\ IF result.status = "raised" /\ result.exc = "ValueError"
       THEN UNCHANGED <<pc, result, media_list, path_to_predictions_folder>>
       ELSE /\ os_makedirs
            /\ pc' = "loop"
            /\ result' = Running
            /\ media_list' = media_list
    /\ idx' = 1
    /\ download_count' = 0
    /\ skip_count' = 0
    /\ prediction' = NoResult
    /\ fetched' = <<>>
    /\ UNCHANGED <<client, op, args, include_result_media, written_json,
                   json_content, written_media, saliency_dir, outer, path_to_folder,
                   server, other>>

\* PredictionClient._override_mode
_override_mode(new_override) == new_override

\* PredictionClient.get_video_predictions, called with the fetch's answer r:
\* a None result is raised as a ValueError.
get_video_predictions(r) ==
    IF r.exc # "none" THEN [exc |-> r.exc, frames |-> <<>>]
    ELSE IF r.result.type = "None" THEN [exc |-> "ValueError", frames |-> <<>>]
    ELSE [exc |-> "none", frames |-> r.result.frames]

\* The stride of the full video download.
Stride(video, stride) ==
    IF stride.given /\ stride.value > 0 THEN stride.value ELSE video.frame_stride

\* The frame indices of the frame list: those of the stored predictions, or
\* range(0, frame_count, stride).
frame_indices(video, inferred, stride, stored) ==
    IF inferred THEN stored ELSE Range(video.frame_count, Stride(video, stride))

\* download_predictions_for_video from its first line to the start of the 2D
\* list loop or, for an empty frame list or an exception, to its end.
\* `nested` says that download_predictions_for_videos made the call.
RunVideo(video, inferred, stride, nested) ==
    \E g \in IF inferred THEN GroupsDraw ELSE {CHOOSE x \in GroupsDraw : TRUE},
       o \in IF inferred THEN PredictionOutcomes(video)
             ELSE {CHOOSE x \in PredictionOutcomes(video) : TRUE} :
       LET r == _get_prediction_for_media_item(video, mode, __project_ready,
                                               version, g, o)
           stored == get_video_predictions(r)
           exc == IF inferred THEN stored.exc ELSE "none"
           indices == frame_indices(video, inferred, stride, stored.frames)
           frame_list == [i \in 1..Len(indices) |->
                              VideoFrame_from_video(video, indices[i])]
           overridden == IF inferred THEN __override_mode
                         ELSE _override_mode("ONLINE")
       IN /\ __project_ready' = IF inferred THEN r.project_ready ELSE __project_ready
          /\ requests' = IF inferred THEN r.requests ELSE <<>>
          /\ predictions' = IF inferred THEN stored.frames ELSE <<>>
          /\ IF exc # "none"
             THEN /\ pc' = "done"
                  /\ result' = Raised(exc)
                  /\ __override_mode' = overridden
                  /\ Enter2DList(<<>>)
                  /\ UNCHANGED path_to_predictions_folder
             ELSE IF Len(frame_list) > 0
             THEN /\ os_makedirs
                  /\ Enter2DList(frame_list)
                  /\ pc' = "loop"
                  /\ result' = Running
                  /\ __override_mode' = overridden
             ELSE /\ UNCHANGED path_to_predictions_folder
                  /\ __override_mode' = _reset_override_mode
                  /\ pc' = IF nested THEN "videos" ELSE "done"
                  /\ result' = IF nested THEN result ELSE Returned(0)
                  /\ Enter2DList(<<>>)

\* download_predictions_for_video
download_predictions_for_video(video, include, inferred, stride) ==
    /\ pc = "idle"
    /\ UNCHANGED <<path_to_folder, held>>
    /\ op' = "download_predictions_for_video"
    /\ args' = [video |-> video]
    /\ include_result_media' = include
    /\ inferred_frames_only' = inferred
    /\ frame_stride' = stride
    /\ RunVideo(video, inferred, stride, FALSE)
    /\ UNCHANGED <<version, project, _mode, written_json, json_content, written_media, saliency_dir,
                   videos, t_total>>

\* download_predictions_for_videos up to its for loop.
download_predictions_for_videos(video_list, include, inferred, stride) ==
    /\ pc = "idle"
    /\ UNCHANGED <<paths, held>>
    /\ op' = "download_predictions_for_videos"
    /\ args' = NoArgs
    /\ videos' = video_list
    /\ include_result_media' = include
    /\ inferred_frames_only' = inferred
    /\ frame_stride' = stride
    /\ t_total' = 0
    /\ pc' = "videos"
    /\ result' = Running
    /\ requests' = <<>>
    /\ predictions' = <<>>
    /\ Enter2DList(<<>>)
    /\ UNCHANGED <<client, written_json, json_content, written_media, saliency_dir>>

\* One pass of the for loop of download_predictions_for_videos: the call of
\* download_predictions_for_video for the next video.
videos_step ==
    /\ pc = "videos"
    /\ UNCHANGED <<path_to_folder, held>>
    /\ videos # <<>>
    /\ videos' = Tail(videos)
    /\ RunVideo(Head(videos), inferred_frames_only, frame_stride, TRUE)
    /\ UNCHANGED <<version, project, _mode, op, args, include_result_media,
                   inferred_frames_only, frame_stride, t_total,
                   written_json, json_content, written_media, saliency_dir>>

\* The end of the for loop of download_predictions_for_videos.
videos_return ==
    /\ pc = "videos"
    /\ UNCHANGED <<paths, held>>
    /\ videos = <<>>
    /\ pc' = "done"
    /\ result' = Returned(t_total)
    /\ requests' = <<>>
    /\ UNCHANGED <<client, op, args, loop, outer>>

\* A download entered with the folder path_to_folder, up to os.makedirs.
enter_folder ==
    /\ pc = "idle"
    /\ pc' = "done"
    /\ path_to_predictions_folder' = predictions_folder(path_to_folder)
    /\ UNCHANGED <<client, op, args, result, requests, loop, outer, path_to_folder,
                   held>>

\* The caller passes the folder of the last download to the next one.
reuse_folder ==
    /\ pc = "done"
    /\ pc' = "idle"
    /\ path_to_folder' = path_to_predictions_folder
    /\ UNCHANGED <<client, op, args, result, requests, loop, outer,
                   path_to_predictions_folder, held>>

\* The caller's operations that end in one step.
SetMode == \E new_mode \in SetterArguments : mode_setter(new_mode)

FetchOne ==
    \E media_item \in Images \cup VideoFrames \cup Videos \cup OtherItems,
       prediction_mode \in PredictionModes :
       fetch_media_item(media_item, prediction_mode)

GetImagePrediction ==
    \E image \in Images : get_prediction("get_image_prediction", image)

GetVideoFramePrediction ==
    \E video_frame \in VideoFrames :
       get_prediction("get_video_frame_prediction", video_frame)

GetVideoPredictions ==
    \E video \in Videos : get_prediction("get_video_predictions", video)

PredictImage == \E image \in PredictImageArguments : predict_image(image)

DownloadImages ==
    \E images \in MediaLists, include \in BOOLEAN :
       download_predictions_for_images(images, include)

DownloadVideo ==
    \E video \in Videos, include \in BOOLEAN, inferred \in BOOLEAN,
       stride \in FrameStrideArguments :
       download_predictions_for_video(video, include, inferred, stride)

DownloadVideos ==
    \E video_list \in SeqUpTo(Videos, MaxVideos), include \in BOOLEAN,
       inferred \in BOOLEAN, stride \in FrameStrideArguments :
       download_predictions_for_videos(video_list, include, inferred, stride)

Next ==
    \/ SetMode
    \/ mode_getter
    \/ read_ready_to_predict
    \/ FetchOne
    \/ GetImagePrediction
    \/ GetVideoFramePrediction
    \/ GetVideoPredictions
    \/ PredictImage
    \/ DownloadImages
    \/ DownloadVideo
    \/ DownloadVideos
    \/ download_step
    \/ download_return
    \/ videos_step
    \/ videos_return
    \/ next_call

\* Every operation of the client, in any order.
Spec == Init /\ [][Next]_vars

\* The operations that end in one step.
OneStepCall ==
    \/ SetMode
    \/ mode_getter
    \/ read_ready_to_predict
    \/ FetchOne
    \/ GetImagePrediction
    \/ GetVideoFramePrediction
    \/ GetVideoPredictions
    \/ PredictImage

\* The client used for single calls and downloads of image lists.
NextImages ==
    \/ OneStepCall
    \/ DownloadImages
    \/ download_step
    \/ download_return
    \/ next_call

SpecImages == Init /\ [][NextImages]_vars

\* The client used for single calls and downloads of single videos.
NextVideo ==
    \/ OneStepCall
    \/ DownloadVideo
    \/ download_step
    \/ download_return
    \/ next_call

SpecVideo == Init /\ [][NextVideo]_vars

\* The client used for downloads of lists of videos.
NextVideos ==
    \/ SetMode
    \/ DownloadVideos
    \/ download_step
    \/ download_return
    \/ videos_step
    \/ videos_return
    \/ next_call

SpecVideos == Init /\ [][NextVideos]_vars

\* A server that holds the same model groups and the same predictions from
\* the construction of the client on, and a download of images made twice.
InitTwice ==
    /\ InitClient
    /\ path_to_folder = <<>>
    /\ path_to_predictions_folder = <<>>
    /\ once = NotRepeated
    /\ other = NoOther
    /\ \E g \in ModelGroupsOutcomes(version),
          answers \in [ImageNames -> UNION {PredictionOutcomes(image) : image \in Images}] :
          /\ __are_models_trained(g, version).exc = "none"
          /\ __are_models_trained(g, version).value = __project_ready
          /\ server = [unchanged |-> TRUE, groups |-> g, predictions |-> answers]

NextTwice ==
    \/ DownloadImages
    \/ download_step
    \/ download_return
    \/ download_again

SpecTwice == InitTwice /\ [][NextTwice]_vars

\* The client right after its construction, for any project, with the
\* model_groups request the constructor sent still in the log.
InitReady ==
    /\ project \in Projects
    /\ version \in Versions
    /\ \E g \in ModelGroupsOutcomes(version) :
          /\ __are_models_trained(g, version).exc = "none"
          /\ __project_ready = __are_models_trained(g, version).value
          /\ requests = <<ModelGroupsRequest(g)>>
    /\ _mode = "AUTO"
    /\ __override_mode = "None"
    /\ pc = "done"
    /\ op = "__init__"
    /\ args = NoArgs
    /\ result = Returned("None")
    /\ AtRest
    /\ server = AnyServer
    /\ once = NotRepeated
    /\ other = NoOther
    /\ path_to_folder = <<>>
    /\ path_to_predictions_folder = <<>>

NextReady ==
    \/ read_ready_to_predict
    \/ next_call

SpecReady == InitReady /\ [][NextReady]_vars

\* The folder of a download, for every folder path a caller may pass.
InitFolder ==
    /\ InitClient
    /\ server = AnyServer
    /\ once = NotRepeated
    /\ other = NoOther
    /\ path_to_folder \in Paths
    /\ path_to_predictions_folder = <<>>

NextFolder ==
    \/ enter_folder
    \/ reuse_folder

SpecFolder == InitFolder /\ [][NextFolder]_vars

\* ---------------------------------------------------------- a second caller
\* A second logical caller of the same client instance.  It shares the
\* attributes of the client (the readiness flag, the base mode, the override)
\* and has the locals of its own call in `other`; its steps interleave with
\* those of the first caller between two requests.
\* get_image_prediction called by the second caller.
other_get_image_prediction ==
    /\ other.pc = "idle"
    /\ \E image \in Images, g \in GroupsDraw :
       \E o \in Answers(image) :
          LET r == _get_prediction_for_media_item(image, mode, __project_ready,
                                                  version, g, o)
          IN /\ __project_ready' = r.project_ready
             /\ other' = [other EXCEPT !.pc = "done",
                                       !.op = "get_image_prediction",
                                       !.modes = requested_modes(r.requests),
                                       !.result = raise_if_none(r).status]
    /\ UNCHANGED <<version, project, _mode, __override_mode, control, loop, outer,
                   paths, server, once>>

\* download_predictions_for_video(video, inferred_frames_only=False,
\* include_result_media=False) called by the second caller, up to the start
\* of its loop or, for an empty frame list, to its end.
other_download_predictions_for_video ==
    /\ other.pc = "idle"
    /\ \E video \in Videos, stride \in FrameStrideArguments :
          LET indices == frame_indices(video, FALSE, stride, <<>>)
              frame_list == [i \in 1..Len(indices) |->
                                 VideoFrame_from_video(video, indices[i])]
          IN IF Len(frame_list) > 0
             THEN /\ __override_mode' = _override_mode("ONLINE")
                  /\ other' = [other EXCEPT !.pc = "loop",
                                            !.op = "download_predictions_for_video",
                                            !.media_list = frame_list]
             ELSE /\ __override_mode' = _reset_override_mode
                  /\ other' = [other EXCEPT !.pc = "done",
                                            !.op = "download_predictions_for_video",
                                            !.result = "returned"]
    /\ UNCHANGED <<version, project, __project_ready, _mode, control, loop, outer,
                   paths, server, once>>

\* One pass of the loop of the second caller's download.
other_download_step ==
    /\ other.pc = "loop"
    /\ other.idx <= Len(other.media_list)
    /\ \E g \in GroupsDraw, o \in Answers(other.media_list[other.idx]) :
          LET r == _get_prediction_for_media_item(other.media_list[other.idx], mode,
                                                  __project_ready, version, g, o)
          IN /\ __project_ready' = r.project_ready
             /\ other' =
                   IF r.exc # "none"
                   THEN [other EXCEPT !.pc = "done", !.modes = requested_modes(r.requests),
                                      !.result = "raised"]
                   ELSE [other EXCEPT !.idx = @ + 1, !.modes = requested_modes(r.requests),
                                      !.download_count =
                                          IF IsExported(r.result) THEN @ + 1 ELSE @]
    /\ UNCHANGED <<version, project, _mode, __override_mode, control, loop, outer,
                   paths, server, once>>

\* The end of the second caller's download: the override is reset.
other_download_return ==
    /\ other.pc = "loop"
    /\ other.idx > Len(other.media_list)
    /\ __override_mode' = _reset_override_mode
    /\ other' = [other EXCEPT !.pc = "done", !.modes = <<>>, !.result = "returned"]
    /\ UNCHANGED <<version, project, __project_ready, _mode, control, loop, outer,
                   paths, server, once>>

\* The first caller downloads the predictions of full videos.
DownloadFullVideo ==
    \E video \in Videos, stride \in FrameStrideArguments :
       download_predictions_for_video(video, FALSE, FALSE, stride)

NextCallers ==
    \/ SetMode
    \/ DownloadFullVideo
    \/ download_step
    \/ download_return
    \/ next_call
    \/ other_get_image_prediction
    \/ other_download_predictions_for_video
    \/ other_download_step
    \/ other_download_return

\* Two callers of one client: the first sets the mode and downloads full
\* videos, the second makes one call.
SpecCallers == Init /\ [][NextCallers]_vars

\* ------------------------------------------------------------ model groups
\* The ModelSummary objects of a ModelGroup: score is None until the model
\* has been evaluated.
ModelVersions == 1..MaxModels

CreationDates == 1..MaxModels

ModelSummaries ==
    [version : ModelVersions, creation_date : CreationDates, score : {"None", "0.9"}]

ModelGroups == [models : SeqUpTo(ModelSummaries, MaxModels)]

\* A return value of None where a ModelSummary is expected.
NoModel == [none |-> TRUE]

\* ModelGroup.has_trained_models
has_trained_models(group) ==
    \E i \in DOMAIN group.models : group.models[i].score # "None"

\* next(model for model in models if matches(model)): the first match.
first(matching) == CHOOSE i \in matching : \A j \in matching : i <= j

\* ModelGroup.get_model_by_version
get_model_by_version(group, requested) ==
    LET matching == {i \in DOMAIN group.models : group.models[i].version = requested}
    IN IF ~has_trained_models(group) THEN Returned(NoModel)
       ELSE IF matching = {} THEN Raised("ValueError")
       ELSE Returned(group.models[first(matching)])

\* ModelGroup.get_model_by_creation_date
get_model_by_creation_date(group, requested) ==
    LET matching == {i \in DOMAIN group.models : group.models[i].creation_date = requested}
    IN IF ~has_trained_models(group) THEN Returned(NoModel)
       ELSE IF matching = {} THEN Raised("ValueError")
       ELSE Returned(group.models[first(matching)])

\* A call of get_model_by_version on some group of the project.
GetModelByVersion ==
    /\ pc = "idle"
    /\ \E group \in ModelGroups, requested \in ModelVersions :
          /\ args' = [group |-> group, requested |-> requested]
          /\ result' = get_model_by_version(group, requested)
    /\ pc' = "done"
    /\ op' = "get_model_by_version"
    /\ requests' = <<>>
    /\ UNCHANGED <<client, loop, outer, paths, held>>

\* A call of get_model_by_creation_date on some group of the project.
GetModelByCreationDate ==
    /\ pc = "idle"
    /\ \E group \in ModelGroups, requested \in CreationDates :
          /\ args' = [group |-> group, requested |-> requested]
          /\ result' = get_model_by_creation_date(group, requested)
    /\ pc' = "done"
    /\ op' = "get_model_by_creation_date"
    /\ requests' = <<>>
    /\ UNCHANGED <<client, loop, outer, paths, held>>

NextModelGroup ==
    \/ GetModelByVersion
    \/ GetModelByCreationDate

SpecModelGroup == Init /\ [][NextModelGroup]_vars

\* ----------------------------------------------------------------- claims
\* C1: when a call of download_predictions_for_video with
\* inferred_frames_only=False has ended, by a return or by an exception, the
\* override is None and the effective mode is the base mode.
C1_OverrideClearedOnEveryExit ==
    (pc = "done" /\ op = "download_predictions_for_video" /\ ~inferred_frames_only)
        => (__override_mode = "None" /\ mode = _mode)

\* C2: the mode property is the override when one is set and the base mode
\* otherwise: a read of the property returns that value, every prediction
\* request of a download carries it, and after _reset_override_mode has run
\* (a video download that returned) it is the base mode.
C2_EffectiveMode ==
    LET effective == IF __override_mode = "None" THEN _mode ELSE __override_mode
    IN /\ mode = effective
       /\ (pc = "done" /\ op = "mode") => result.value = effective
       /\ pc = "loop" =>
             \A i \in 1..Len(requests) :
                requests[i].kind = "prediction"
                    => requests[i].mode = ModeUrlSegment(effective)
       /\ (pc = "done" /\ op = "download_predictions_for_video"
           /\ result.status = "returned") => mode = _mode

C2_Witness ==
    /\ pc = "loop"
    /\ __override_mode = "ONLINE"
    /\ _mode = "LATEST"
    /\ \E i \in 1..Len(requests) :
          requests[i].kind = "prediction" /\ requests[i].mode = "online"

\* C3: the setter called with a PredictionMode member, or with one of the
\* strings "auto", "latest", "online", makes that mode the base mode; called
\* with any other string it raises ValueError and leaves the base mode and
\* the override as they were.
C3_ModeSetter ==
    [][(pc = "idle" /\ op' = "mode.setter") =>
          LET a == args'.new_mode
          IN /\ a.type = "PredictionMode"
                   => (_mode' = a.value /\ result'.status = "returned")
             /\ (a.type = "str" /\ a.value = "auto")
                   => (_mode' = "AUTO" /\ result'.status = "returned")
             /\ (a.type = "str" /\ a.value = "latest")
                   => (_mode' = "LATEST" /\ result'.status = "returned")
             /\ (a.type = "str" /\ a.value = "online")
                   => (_mode' = "ONLINE" /\ result'.status = "returned")
             /\ (a.type = "str" /\ a.value \notin {"auto", "latest", "online"})
                   => /\ result' = Raised("ValueError")
                      /\ _mode' = _mode
                      /\ __override_mode' = __override_mode]_vars

C3_Witness ==
    /\ pc = "done"
    /\ op = "mode.setter"
    /\ args.new_mode = [type |-> "str", value |-> "offline"]
    /\ result.status = "raised"
    /\ _mode = "LATEST"

\* C4 as claimed: a fetch that finds the project not ready returns
\* (None, the not-ready message) and sends no request at all.
C4_NotReadyNoNetworkCall ==
    (pc = "done" /\ op = "_get_prediction_for_media_item"
     /\ result.status = "returned" /\ ~__project_ready)
        => /\ result.value = [result |-> NoResult, msg |-> NotReadyMsg]
           /\ requests = <<>>

\* C4 as amended: a fetch that finds the project not ready returns
\* (None, the not-ready message) and sends no prediction request; its only
\* request is the one model_groups request of the readiness re-check.
C4_NotReadyNoPredictionRequest ==
    (pc = "done" /\ op = "_get_prediction_for_media_item"
     /\ result.status = "returned" /\ ~__project_ready)
        => /\ result.value = [result |-> NoResult, msg |-> NotReadyMsg]
           /\ Len(requests) = 1
           /\ requests[1].kind = "model_groups"
           /\ requests[1].status = 200

C4_Witness ==
    /\ pc = "done"
    /\ op = "_get_prediction_for_media_item"
    /\ args.media_item.type = "image"
    /\ result.status = "returned"
    /\ result.value.msg = NotReadyMsg
    /\ ~__project_ready

\* C5: a fetch for an Image, a VideoFrame or a Video never ends with a
\* GetiRequestException raised to the caller.
C5_NoRequestErrorEscapes ==
    (pc = "done" /\ op = "_get_prediction_for_media_item"
     /\ args.media_item.type \in {"image", "video_frame", "video"})
        => ~(result.status = "raised" /\ result.exc = "GetiRequestException")

\* C6: the cached readiness flag never goes from True to False; while it is
\* True no step sends a model_groups request and a read of ready_to_predict
\* returns True; while it is False a read (by the caller, by a fetch, by a
\* pass of the download loop) sends exactly one model_groups request, first,
\* and stores the answer it gets.
C6_ReadinessFlag ==
    [][/\ __project_ready => __project_ready'
       /\ __project_ready =>
             \A i \in 1..Len(requests') : requests'[i].kind # "model_groups"
       /\ (pc = "idle" /\ op' = "ready_to_predict" /\ __project_ready)
             => (result' = Returned(TRUE) /\ requests' = <<>>)
       /\ (pc = "idle" /\ op' = "ready_to_predict" /\ ~__project_ready)
             => /\ Len(requests') = 1
                /\ requests'[1].kind = "model_groups"
                /\ result'.status = "returned" => result'.value = __project_ready'
                /\ result'.status = "raised" => ~__project_ready'
       /\ (~__project_ready
           /\ \/ (pc = "idle" /\ op' = "_get_prediction_for_media_item")
              \/ (pc = "loop" /\ idx <= Len(media_list)))
             => /\ Len(requests') >= 1
                /\ requests'[1].kind = "model_groups"
                /\ \A i \in 2..Len(requests') : requests'[i].kind # "model_groups"]_vars

C6_Witness ==
    /\ pc = "done"
    /\ op = "ready_to_predict"
    /\ __project_ready
    /\ requests = <<>>
    /\ result = Returned(TRUE)

\* C7: a download of N images that returned, K of them having failed (the
\* fetch gave None or a prediction of another kind than PREDICTION), left
\* exactly N-K JSON files and a skip count of K, with
\* downloaded + skipped = N.
C7_FilesEqualNMinusK ==
    (pc = "done" /\ op = "download_predictions_for_images"
     /\ result.status = "returned")
        => LET K == Cardinality({i \in 1..Len(fetched) : fetched[i] # "PREDICTION"})
           IN /\ Len(fetched) = Len(media_list)
              /\ Cardinality(written_json) = Len(media_list) - K
              /\ skip_count = K
              /\ download_count + skip_count = Len(media_list)

\* C8: a pass of the download loop that fetched a prediction of another kind
\* than PREDICTION writes no JSON file and no result media file, sends no
\* result media request, and counts the item as skipped.
C8_WrongKindNeverWritten ==
    [][(pc = "loop" /\ Len(fetched') = Len(fetched) + 1
        /\ fetched'[Len(fetched')] \notin {"None", "PREDICTION"})
          => /\ written_json' = written_json
             /\ written_media' = written_media
             /\ saliency_dir' = saliency_dir
             /\ \A i \in 1..Len(requests') : requests'[i].kind # "result_media"
             /\ skip_count' = skip_count + 1
             /\ download_count' = download_count]_vars

C8_Witness ==
    /\ pc = "loop"
    /\ include_result_media
    /\ prediction.type = "Prediction"
    /\ prediction.kind = "ANNOTATION"
    /\ prediction.has_result_media
    /\ skip_count = 1
    /\ written_json = {}

\* C9: a pass of the download loop whose result media request fails with a
\* request error does not end the download: no result media file is written,
\* the JSON of the item is written, the item counts as downloaded and the
\* loop goes on to the next item.
C9_ResultMediaFailureSwallowed ==
    [][(pc = "loop" /\ idx <= Len(media_list)
        /\ \E i \in 1..Len(requests') :
              requests'[i].kind = "result_media" /\ requests'[i].status # 200)
          => /\ pc' = "loop"
             /\ idx' = idx + 1
             /\ written_media' = written_media
             /\ written_json' = written_json \cup {media_list[idx].name}
             /\ download_count' = download_count + 1
             /\ skip_count' = skip_count
             /\ fetched' = Append(fetched, "PREDICTION")]_vars

C9_Witness ==
    /\ pc = "loop"
    /\ idx = 2
    /\ Len(media_list) = 2
    /\ \E i \in 1..Len(requests) :
          requests[i].kind = "result_media" /\ requests[i].status = 500
    /\ download_count = 1
    /\ written_json = {media_list[1].name}
    /\ written_media = {}

\* C10: download_predictions_for_videos is never ended, with videos of the
\* list still to download, by the ValueError that get_video_predictions
\* raises for a video without stored predictions.
C10_NoEarlyAbort ==
    ~(/\ pc = "done"
      /\ op = "download_predictions_for_videos"
      /\ result.status = "raised"
      /\ result.exc = "ValueError"
      /\ videos # <<>>)

\* C11: a download of one video never ends with an error raised for a
\* data-availability reason (the project not ready, a 204 or another error
\* status from the server): no ValueError and no GetiRequestException
\* reaches the caller of download_predictions_for_video.
C11_BulkNeverRaisesForAvailability ==
    (pc = "done" /\ op = "download_predictions_for_video")
        => ~(result.status = "raised"
             /\ result.exc \in {"ValueError", "GetiRequestException"})

\* C12: while download_predictions_for_video runs with
\* inferred_frames_only=True, the frame list holds exactly the frames of the
\* stored predictions of the video, only those frames are requested and
\* written, no override is set, and every prediction request carries the
\* caller's base mode.
C12_InferredFramesInBaseMode ==
    (pc = "loop" /\ op = "download_predictions_for_video" /\ inferred_frames_only)
        => LET frame_names == {VideoFrame_from_video(args.video, predictions[i]).name :
                                   i \in 1..Len(predictions)}
           IN /\ Len(media_list) = Len(predictions)
              /\ \A i \in 1..Len(media_list) :
                    media_list[i] = VideoFrame_from_video(args.video, predictions[i])
              /\ written_json \subseteq frame_names
              /\ __override_mode = "None"
              /\ \A i \in 1..Len(requests) :
                    requests[i].kind = "prediction"
                        => /\ requests[i].name \in frame_names \cup {args.video.name}
                           /\ requests[i].mode = ModeUrlSegment(_mode)

\* C13: while download_predictions_for_video runs with
\* inferred_frames_only=False, the frame list is range(0, frame_count, stride)
\* with the explicit stride when it is positive and the stride suggested by
\* the video otherwise; every prediction request is for the frame just
\* processed and carries mode ONLINE, whatever the base mode is and whatever
\* happened to the frames before; a download that returns has processed
\* every frame of the list.
C13_FullVideoForcesOnline ==
    (op = "download_predictions_for_video" /\ ~inferred_frames_only
     /\ pc \in {"loop", "done"})
        => LET video == args.video
               stride == IF frame_stride.given /\ frame_stride.value > 0
                         THEN frame_stride.value
                         ELSE video.frame_stride
               indices == {k \in 0..(video.frame_count - 1) : k % stride = 0}
           IN /\ pc = "loop" =>
                    /\ Len(media_list) = Cardinality(indices)
                    /\ \A i \in 1..Len(media_list) :
                          media_list[i] = VideoFrame_from_video(video, (i - 1) * stride)
                    /\ __override_mode = "ONLINE"
                    /\ \A i \in 1..Len(requests) :
                          requests[i].kind = "prediction"
                              => /\ requests[i].mode = "online"
                                 /\ requests[i].name = media_list[Len(fetched)].name
              /\ (pc = "done" /\ result.status = "returned")
                    => Len(fetched) = Cardinality(indices)

C13_Witness ==
    /\ pc = "loop"
    /\ op = "download_predictions_for_video"
    /\ ~inferred_frames_only
    /\ _mode = "LATEST"
    /\ frame_stride = [given |-> TRUE, value |-> 1]
    /\ Len(fetched) = 2
    /\ fetched[1] = "None"
    /\ \E i \in 1..Len(requests) :
          /\ requests[i].kind = "prediction"
          /\ requests[i].name = "v_frame_1"
          /\ requests[i].mode = "online"

\* C14: a fetch for a media item that is neither an Image, a VideoFrame nor
\* a Video always ends with the TypeError of the unsupported media type
\* raised to the caller, whatever the readiness of the project and the
\* answer of the server.
C14_UnsupportedMediaAlwaysRaises ==
    (pc = "done" /\ op = "_get_prediction_for_media_item"
     /\ args.media_item.type \notin {"image", "video_frame", "video"})
        => (result.status = "raised" /\ result.exc = "TypeError")

\* C15: a convenience call (get_image_prediction,
\* get_video_frame_prediction, get_video_predictions) sends its prediction
\* request in the effective mode of the client; when the fetch gives None
\* (the project is not ready, or the server answers 204 or another error
\* status) the call raises ValueError with the message of the fetch, and
\* when the server answers with a body the call raises no ValueError and
\* what it returns is the fetched prediction or list, never None.
C15_ConvenienceCalls ==
    [][(pc = "idle" /\ op' \in {"get_image_prediction", "get_video_frame_prediction",
                                "get_video_predictions"})
          => LET n == Len(requests')
                 last == requests'[n]
             IN /\ \A i \in 1..n :
                      requests'[i].kind = "prediction"
                          => /\ requests'[i].mode = ModeUrlSegment(mode)
                             /\ requests'[i].name = args'.media_item.name
                             /\ i = n
                /\ (n > 0 /\ last.kind = "model_groups" /\ last.status = 200)
                      => /\ result'.status = "raised"
                         /\ result'.exc = "ValueError"
                         /\ result'.value = NotReadyMsg
                /\ (n > 0 /\ last.kind = "prediction" /\ last.status # 200)
                      => /\ result'.status = "raised"
                         /\ result'.exc = "ValueError"
                         /\ result'.value = ErrorMsg(last.status, mode)
                /\ (n > 0 /\ last.kind = "prediction" /\ last.status = 200)
                      => /\ result'.exc # "ValueError"
                         /\ result'.status = "returned"
                               => result'.value.type \in {"Prediction", "list"}
                /\ result'.status = "returned"
                      => (n > 0 /\ last.kind = "prediction" /\ last.status = 200)]_vars

C15_Witness ==
    /\ pc = "done"
    /\ op = "get_video_predictions"
    /\ result.status = "returned"
    /\ result.value.type = "list"
    /\ result.value.frames = <<>>
    /\ __override_mode = "ONLINE"
    /\ _mode = "LATEST"
    /\ Len(requests) = 1
    /\ requests[1].kind = "prediction"
    /\ requests[1].name = args.media_item.name
    /\ requests[1].mode = ModeUrlSegment("ONLINE")
    /\ requests[1].status = 200

\* C16: a call of predict_image reads and writes nothing of the readiness
\* gate and of the mode: it sends no model_groups request, leaves the
\* readiness flag, the base mode and the override as they were, and, for an
\* input it accepts, sends exactly one request, a POST to <base_url>predict
\* with content type jpeg, also when the project is not ready.
C16_PredictImageBypassesGate ==
    [][(pc = "idle" /\ op' = "predict_image")
          => /\ __project_ready' = __project_ready
             /\ _mode' = _mode
             /\ __override_mode' = __override_mode
             /\ \A i \in 1..Len(requests') : requests'[i].kind # "model_groups"
             /\ (\/ args'.image.type = "ndarray"
                 \/ args'.image.type = "Image" /\ args'.image.holds = "pixels"
                 \/ args'.image.type \in {"str", "PathLike"} /\ args'.image.holds = "file")
                   => /\ Len(requests') = 1
                      /\ requests'[1].kind = "predict"
                      /\ requests'[1].method = "POST"
                      /\ requests'[1].contenttype = "jpeg"]_vars

C16_Witness ==
    /\ pc = "done"
    /\ op = "predict_image"
    /\ ~__project_ready
    /\ args.image.type = "ndarray"
    /\ result.status = "returned"
    /\ requests = <<PredictRequest(200)>>

\* C17: predict_image called with an Image that holds no pixel data raises
\* ValueError, called with a path to no file raises FileNotFoundError, called
\* with an object of another type raises a TypeError that names the type;
\* in the three cases no request is sent.
C17_PredictImageRejectsInput ==
    [][(pc = "idle" /\ op' = "predict_image")
          => LET image == args'.image
             IN /\ (image.type = "Image" /\ image.holds = "None")
                      => (result'.status = "raised" /\ result'.exc = "ValueError"
                          /\ requests' = <<>>)
                /\ (image.type \in {"str", "PathLike"} /\ image.holds = "no file")
                      => (result'.status = "raised"
                          /\ result'.exc = "FileNotFoundError"
                          /\ requests' = <<>>)
                /\ image.type \notin {"Image", "ndarray", "str", "PathLike"}
                      => (result'.status = "raised" /\ result'.exc = "TypeError"
                          /\ \E k \in 1..Len(result'.value) :
                                result'.value[k] = image.type
                          /\ requests' = <<>>)]_vars

C17_Witness ==
    /\ pc = "done"
    /\ op = "predict_image"
    /\ args.image.type = "int"
    /\ result.status = "raised"
    /\ result.exc = "TypeError"
    /\ requests = <<>>

\* C18: every prediction the single item fetch returns (to its caller or
\* through a convenience call, for an Image, a VideoFrame or a Video, under
\* every server version) and every prediction the download loop holds, and
\* so every one it writes, has had its labels resolved.
C18_LabelsResolvedByFetch ==
    /\ (pc = "done" /\ op = "_get_prediction_for_media_item"
        /\ result.status = "returned" /\ result.value.result.type # "None")
          => result.value.result.labels_resolved
    /\ (pc = "done" /\ result.status = "returned"
        /\ op \in {"get_image_prediction", "get_video_frame_prediction",
                   "get_video_predictions"})
          => (result.value.type \in {"Prediction", "list"}
              /\ result.value.labels_resolved)
    /\ (pc \in {"loop", "done"} /\ prediction.type # "None"
        /\ op \in {"download_predictions_for_images", "download_predictions_for_video"})
          => prediction.labels_resolved

C18_Witness ==
    /\ pc = "loop"
    /\ op = "download_predictions_for_video"
    /\ version = "sc_mvp"
    /\ prediction.type = "Prediction"
    /\ prediction.kind = "PREDICTION"
    /\ prediction.labels_resolved
    /\ written_json = {"v_frame_0"}

\* C19: the prediction that predict_image returns has had its labels
\* resolved.
C19_PredictImageResolvesLabels ==
    (pc = "done" /\ op = "predict_image" /\ result.status = "returned")
        => result.value.labels_resolved

\* C20: the folder a download writes to is the given folder exactly when the
\* final segment of the given path is 'predictions', and the given folder
\* joined with 'predictions' otherwise; the folder written to, given again,
\* is used as it is.
C20_PredictionsFolderBySegment ==
    pc = "done"
        => LET slashes == {i \in 1..Len(path_to_folder) : path_to_folder[i] = "/"}
               start == IF slashes = {} THEN 1
                        ELSE 1 + CHOOSE i \in slashes : \A j \in slashes : j <= i
               final_segment == SubSeq(path_to_folder, start, Len(path_to_folder))
           IN /\ (path_to_predictions_folder = path_to_folder)
                    <=> (final_segment = <<"predictions">>)
              /\ path_to_predictions_folder # path_to_folder
                    => path_to_predictions_folder
                          = os_path_join(path_to_folder, "predictions")
              /\ predictions_folder(path_to_predictions_folder)
                    = path_to_predictions_folder

\* C21: a download of images made twice with the same list into the same
\* folder, the server holding the same predictions, leaves after the second
\* run the files the first run left, each with the same one document; no
\* file is added, none holds more than one document.
C21_SecondRunLeavesSameFiles ==
    (pc = "done" /\ once.runs = 1)
        => /\ written_json = once.written_json
           /\ json_content = once.json_content
           /\ \A name \in FileNames :
                 /\ Len(json_content[name]) <= 1
                 /\ name \in written_json <=> json_content[name] # <<>>

C21_Witness ==
    /\ pc = "done"
    /\ once.runs = 1
    /\ result.status = "returned"
    /\ download_count = 2
    /\ written_json = {"a", "b"}
    /\ json_content["a"] # json_content["b"]

\* C22: get_model_by_version and get_model_by_creation_date return the model
\* of the group with the requested version or creation date (the first such
\* model), and raise ValueError whenever the group holds no such model, a
\* group with no trained model included.
C22_ValueErrorWheneverNoneMatches ==
    (pc = "done" /\ op \in {"get_model_by_version", "get_model_by_creation_date"})
        => LET models == args.group.models
               matching ==
                   {i \in DOMAIN models :
                       IF op = "get_model_by_version"
                       THEN models[i].version = args.requested
                       ELSE models[i].creation_date = args.requested}
           IN IF matching = {}
              THEN result.status = "raised" /\ result.exc = "ValueError"
              ELSE /\ result.status = "returned"
                   /\ result.value = models[first(matching)]

\* C23 (as stated): a fetch for a video takes the per-frame envelopes from
\* the key video_predictions of the response on the legacy versions and from
\* the top-level array on the current version, and returns one Prediction
\* per envelope in the same order.
C23_KeyOnLegacyArrayOnCurrent ==
    (/\ pc = "done"
     /\ op = "get_video_predictions"
     /\ Len(requests) > 0
     /\ requests[Len(requests)].kind = "prediction"
     /\ requests[Len(requests)].status = 200)
        => LET response == requests[Len(requests)]
           IN ((IsLegacy(version) /\ response.shape = "dict")
                  \/ (~IsLegacy(version) /\ response.shape = "list"))
                 => /\ result.status = "returned"
                    /\ result.value.type = "list"
                    /\ result.value.frames = response.frames

\* C23 (amended): a fetch for a video takes the per-frame envelopes from the
\* top-level array of the response on the legacy versions and from the key
\* video_predictions on the current version, and returns one Prediction per
\* envelope in the same order; a response of the other shape gives no list
\* of predictions but an exception.
C23_ArrayOnLegacyKeyOnCurrent ==
    (/\ pc = "done"
     /\ op = "get_video_predictions"
     /\ Len(requests) > 0
     /\ requests[Len(requests)].kind = "prediction"
     /\ requests[Len(requests)].status = 200)
        => LET response == requests[Len(requests)]
           IN IF (IsLegacy(version) /\ response.shape = "list")
                    \/ (~IsLegacy(version) /\ response.shape = "dict")
              THEN /\ result.status = "returned"
                   /\ result.value.type = "list"
                   /\ result.value.frames = response.frames
              ELSE result.status = "raised"

C23_Witness ==
    /\ pc = "done"
    /\ op = "get_video_predictions"
    /\ ~IsLegacy(version)
    /\ Len(requests) > 0
    /\ requests[Len(requests)].kind = "prediction"
    /\ requests[Len(requests)].shape = "dict"
    /\ requests[Len(requests)].frames = <<0, 1>>
    /\ result.status = "returned"
    /\ result.value.frames = <<0, 1>>

\* C24: the readiness check, run by the constructor and by a read of
\* ready_to_predict while the flag is False, answers True exactly when every
\* trainable task of the project has a model group in the listing that holds
\* at least one model (so True for a project with no trainable task); the
\* listing is the array under the key of the version, or the response itself
\* when a legacy server answers with a list, and is empty when the key is
\* missing.
C24_ReadyIffEveryTaskHasAModel ==
    (/\ pc = "done"
     /\ op \in {"__init__", "ready_to_predict"}
     /\ requests # <<>>
     /\ requests[1].status = 200)
        => LET response == requests[1]
               listing ==
                   IF response.shape = "dict" /\ response.key = "none"
                   THEN <<>>
                   ELSE response.array
               ready ==
                   \A task_id \in project.trainable_tasks :
                      \E i \in DOMAIN listing :
                         listing[i].task_id = task_id /\ listing[i].models > 0
           IN /\ response.shape = "list" => IsLegacy(version)
              /\ (response.shape = "dict" /\ response.key # "none")
                    => response.key = (IF IsLegacy(version) THEN "items" ELSE "model_groups")
              /\ __project_ready = ready
              /\ op = "ready_to_predict"
                    => (result.status = "returned" /\ result.value = ready)

C24_Witness ==
    /\ pc = "done"
    /\ op = "ready_to_predict"
    /\ project.trainable_tasks = {"t1"}
    /\ requests # <<>>
    /\ requests[1].status = 200
    /\ requests[1].array = <<[task_id |-> "t1", models |-> 0], [task_id |-> "t1", models |-> 1]>>
    /\ result.status = "returned"
    /\ result.value = TRUE

\* C25: a fetch whose prediction request was answered with status 204 returns
\* None with the 'prediction is not available' message, which carries the
\* advice to set the mode to 'auto' or 'online' exactly when the requested
\* mode was LATEST; answered with another error status it returns None with
\* the message that embeds the server's error text, without the 204 wording;
\* answered with success and converted, it returns a result that is not None
\* with the message 'success'.
C25_ErrorClassification ==
    (/\ pc = "done"
     /\ op = "_get_prediction_for_media_item"
     /\ result.status = "returned"
     /\ requests # <<>>
     /\ requests[Len(requests)].kind = "prediction")
        => LET status == requests[Len(requests)].status
               msg == result.value.msg
               pieces == {msg[i] : i \in DOMAIN msg}
               unavailable == "prediction is not available" \in pieces
               advice == "Try setting the mode to 'auto' or 'online'" \in pieces
               server_text == "Server responded with error message" \in pieces
           IN IF status = 204
              THEN /\ result.value.result.type = "None"
                   /\ unavailable /\ ~server_text
                   /\ advice <=> args.prediction_mode = "LATEST"
              ELSE IF status # 200
              THEN /\ result.value.result.type = "None"
                   /\ server_text /\ ~unavailable /\ ~advice
              ELSE /\ msg = <<"success">>
                   /\ result.value.result.type # "None"

C25_Witness ==
    /\ pc = "done"
    /\ op = "_get_prediction_for_media_item"
    /\ result.status = "returned"
    /\ args.prediction_mode = "LATEST"
    /\ requests # <<>>
    /\ requests[Len(requests)].kind = "prediction"
    /\ requests[Len(requests)].status = 204
    /\ result.value.msg = <<"Unable to retrieve prediction", "prediction is not available",
                            "Try setting the mode to 'auto' or 'online'">>

\* C26 (as stated): every pass of the loop of a bulk download sends exactly
\* one prediction request, for the item at the current position, and moves
\* to the next position only with that item written or counted as skipped.
C26_ExactlyOneRequestPerItem ==
    [][(pc = "loop" /\ idx <= Len(media_list) /\ pc' = "loop")
          => LET sent == {i \in DOMAIN requests' : requests'[i].kind = "prediction"}
             IN /\ Cardinality(sent) = 1
                /\ \A i \in sent : requests'[i].name = media_list[idx].name
                /\ idx' = idx + 1
                /\ download_count' + skip_count' = idx]_vars

\* C26 (amended): the loop of a bulk download takes the items one at a time
\* in list order.  A pass sends at most one prediction request, for the item at
\* the current position and for no other; it sends exactly one when the
\* project is ready, and none when the readiness gate finds the project not
\* ready.  The loop moves on by one position, and only with the item written
\* (download_count) or skipped (skip_count); no item is requested again.
C26_Sequential ==
    [][(pc = "loop" /\ idx <= Len(media_list))
          => LET sent == {i \in DOMAIN requests' : requests'[i].kind = "prediction"}
             IN /\ Cardinality(sent) <= 1
                /\ \A i \in sent : requests'[i].name = media_list[idx].name
                /\ media_list' = media_list
                /\ pc' = "loop"
                      => /\ idx' = idx + 1
                         /\ download_count' + skip_count' = idx
                         /\ Len(fetched') = idx
                         /\ \/ (download_count' = download_count + 1
                                   /\ skip_count' = skip_count
                                   /\ media_list[idx].name \in written_json')
                            \/ (skip_count' = skip_count + 1
                                   /\ download_count' = download_count
                                   /\ written_json' = written_json)
                         /\ Cardinality(sent) = (IF __project_ready' THEN 1 ELSE 0)]_vars

C26_Witness ==
    /\ pc = "loop"
    /\ op = "download_predictions_for_images"
    /\ Len(media_list) = 2
    /\ idx = 2
    /\ media_list[1].name # media_list[2].name
    /\ download_count = 1
    /\ skip_count = 0
    /\ Len(requests) = 1
    /\ requests[1].kind = "prediction"
    /\ requests[1].name = media_list[1].name

\* C27: nothing keeps the override to the call that set it.  While the
\* download of a full video by one caller is in progress, the prediction
\* request of a get_image_prediction by another caller carries ONLINE
\* whatever the base mode; the return of a full-video download of another
\* caller clears the override; and from then on the frames that are left to
\* the first download are requested with the base mode.
C27_OverrideSharedByCallers ==
    [][/\ (/\ other.pc = "idle"
           /\ other'.op = "get_image_prediction"
           /\ pc = "loop"
           /\ op = "download_predictions_for_video"
           /\ ~inferred_frames_only)
              => \A i \in DOMAIN other'.modes :
                    other'.modes[i] = ModeUrlSegment("ONLINE")
       /\ (/\ other' # other
           /\ other'.op = "download_predictions_for_video"
           /\ other'.pc = "done"
           /\ other'.result = "returned")
              => /\ __override_mode' = "None"
                 /\ mode' = _mode'
       /\ (/\ other' = other
           /\ other.op = "download_predictions_for_video"
           /\ other.result = "returned"
           /\ pc = "loop"
           /\ op = "download_predictions_for_video"
           /\ ~inferred_frames_only
           /\ __override_mode = "None")
              => \A i \in DOMAIN requests' :
                    requests'[i].kind = "prediction"
                       => requests'[i].mode = ModeUrlSegment(_mode)]_vars

C27_Witness ==
    /\ pc = "loop"
    /\ op = "download_predictions_for_video"
    /\ ~inferred_frames_only
    /\ _mode = "LATEST"
    /\ Len(media_list) = 2
    /\ idx = 3
    /\ requests # <<>>
    /\ requests[Len(requests)].kind = "prediction"
    /\ requests[Len(requests)].mode = ModeUrlSegment("LATEST")
    /\ other.op = "download_predictions_for_video"
    /\ other.result = "returned"
    /\ other.download_count > 0
    /\ __override_mode = "None"

\* C28: download_predictions_for_images called with a list whose media type
\* is neither Image nor VideoFrame ends at once with a ValueError and has done
\* nothing: the predictions folder is not made, the readiness flag is not
\* read or refreshed, no request is sent, no file is written.
C28_InvalidListFailsBeforeAnySideEffect ==
    [][(/\ pc = "idle"
        /\ pc' # "idle"
        /\ op' = "download_predictions_for_images"
        /\ args'.images.media_type \notin {"image", "video_frame"})
          => /\ pc' = "done"
             /\ result'.status = "raised"
             /\ result'.exc = "ValueError"
             /\ requests' = <<>>
             /\ UNCHANGED <<path_to_predictions_folder, __project_ready,
                            written_json, json_content, written_media,
                            saliency_dir, _mode, __override_mode>>]_vars

C28_Witness ==
    /\ pc = "done"
    /\ op = "download_predictions_for_images"
    /\ args.images.media_type = "video"
    /\ result.status = "raised"
    /\ result.exc = "ValueError"
    /\ ~__project_ready
    /\ requests = <<>>
    /\ path_to_predictions_folder = <<>>
    /\ written_json = {}

\* C29: a pass of the loop of a bulk download sends a result-media request
\* only for an item whose prediction has kind PREDICTION and carries result
\* media, and only when include_result_media is True; the saliency_maps
\* folder is made in a pass only if its result-media request was answered
\* with a payload; with include_result_media False there is, at any time of
\* the download, no saliency_maps folder and no result media file.
C29_ResultMediaOnlyOnDemand ==
    [][/\ (pc = "loop" /\ idx <= Len(media_list))
             => LET asked == {i \in DOMAIN requests' :
                                 requests'[i].kind = "result_media"}
                IN /\ asked # {}
                      => /\ include_result_media
                         /\ \A i \in asked : requests'[i].name = media_list[idx].name
                         /\ prediction'.kind = "PREDICTION"
                         /\ prediction'.has_result_media
                   /\ (saliency_dir' /\ ~saliency_dir)
                         => \E i \in asked : /\ requests'[i].status = 200
                                             /\ requests'[i].data # "None"
                   /\ written_media' # written_media
                         => (saliency_dir' /\ asked # {})
       /\ (pc' \in {"loop", "done"} /\ ~include_result_media')
             => /\ ~saliency_dir'
                /\ written_media' = {}
                /\ \A i \in DOMAIN requests' : requests'[i].kind # "result_media"]_vars

C29_Witness ==
    /\ pc = "loop"
    /\ include_result_media
    /\ Len(media_list) = 2
    /\ idx = 3
    /\ fetched = <<"PREDICTION", "PREDICTION">>
    /\ saliency_dir
    /\ written_media = {media_list[2].name}
    /\ media_list[1].name # media_list[2].name
    /\ Len(requests) = 2
    /\ requests[2].kind = "result_media"
    /\ requests[2].data = "payload"

\* C30: the base mode changes only in a call of the mode setter; every other
\* step of every operation (fetches, convenience calls, downloads with their
\* loops, the full-video download that sets the override, predict_image)
\* leaves it as it was.  A call of the setter leaves the override as it was,
\* so that with an override set the effective mode is still the override.
C30_BaseModeChangedOnlyBySetter ==
    [][/\ _mode' # _mode
             => (pc = "idle" /\ pc' = "done" /\ op' = "mode.setter")
       /\ (pc = "idle" /\ pc' = "done" /\ op' = "mode.setter")
             => /\ __override_mode' = __override_mode
                /\ __override_mode # "None" => mode' = __override_mode]_vars

C30_Witness ==
    /\ pc = "done"
    /\ op = "mode.setter"
    /\ result.status = "returned"
    /\ _mode = "LATEST"
    /\ __override_mode = "ONLINE"
    /\ mode = "ONLINE"

\* C31: whatever the mode setter was called with (members of PredictionMode,
\* valid and invalid strings, values of other types), and whether the calls
\* were accepted or rejected, the base mode is one of AUTO, LATEST, ONLINE;
\* before the first call of the setter it is AUTO.
C31_BaseModeIsAPredictionMode == _mode \in PredictionModes

====
